---------------------------- MODULE Spec2Model ----------------------------
(***************************************************************************)
(* Model of digest.py: the daily headline digest.  Raw items are collected *)
(* from GDELT and RSS, deduplicated and scored (dedupe_score), analysed    *)
(* and ranked (analyze_signal, build_report) and delivered (main).         *)
(*                                                                         *)
(* Strings are sequences of Unicode code points, so that substring tests,  *)
(* case folding, regular-expression substitutions, slicing and the string  *)
(* order used by list.sort are computed as Python computes them.           *)
(***************************************************************************)
EXTENDS Integers, Sequences, FiniteSets, TLC

(***************************************************************************)
(* Bounds of the model.                                                    *)
(***************************************************************************)
\* longest raw stream handed to dedupe_score in the function-level runs
MaxStream == 3
\* most entries one collector returns in a run of main
MaxFetch == 1
\* largest keyword score handed to analyze_signal in the signal-level runs
MaxScore == 7

(***************************************************************************)
(* Program constants.                                                      *)
(***************************************************************************)
\* fuzzy_key: t[:80]
FuzzyLen == 80
\* main: dedupe_score(items, top_n=60)
TopN == 60
\* main: RSS_MAX default
RssMax == 80
\* build_report: b["title"][:55]
TitleCut == 55
\* build_report: theme_buckets[th][:2]
ThemeTop == 2
\* build_report: top3 = enriched[:3]
SpotlightTop == 3
\* analyze_signal: min(6, score)
ScoreCap == 6
\* analyze_signal: strength_score >= 10, >= 6
HighThreshold == 10
MediumThreshold == 6
\* analyze_signal: bonus of a strong term, a medium term, a high-impact theme
StrongBonus == 4
MediumBonus == 2
ThemeBonus == 2
\* analyze_signal: if len(hits) >= 6: break
MaxHits == 6

(***************************************************************************)
(* Characters and strings.                                                 *)
(***************************************************************************)
SPACE == 32
PIPE == 124
ELLIPSIS == 8230

\* what str.strip() and the regular expression \s treat as whitespace
WHITESPACE ==
  {9, 10, 11, 12, 13, 28, 29, 30, 31, 32, 133, 160, 5760, 8232, 8233, 8239, 8287, 12288}
    \cup (8192..8202)

IsSpace(c) == c \in WHITESPACE

\* str.lower() on one character: the ASCII capitals; Hangul has no case
LowerChar(c) == IF c >= 65 /\ c <= 90 THEN c + 32 ELSE c

\* (the concatenation makes the result a sequence that is computed once)
Lower(s) == [i \in 1..Len(s) |-> LowerChar(s[i])] \o <<>>

\* str.strip()
Strip(s) ==
  LET keep(i) == ~IsSpace(s[i])
  IN  IF \A i \in 1..Len(s) : ~keep(i) THEN <<>>
      ELSE SubSeq(s, CHOOSE i \in 1..Len(s) : keep(i) /\ \A j \in 1..(i - 1) : ~keep(j),
                     CHOOSE i \in 1..Len(s) : keep(i) /\ \A j \in (i + 1)..Len(s) : ~keep(j))

\* re.sub(r"\s+", " ", s): every maximal run of whitespace becomes one space
\* (the characters kept are the non-blank ones and the first of each run)
CollapseSpaces(s) ==
  LET kept == SelectSeq([i \in 1..Len(s) |-> i],
                        LAMBDA i : ~IsSpace(s[i]) \/ i = 1 \/ ~IsSpace(s[i - 1]))
  IN  [p \in 1..Len(kept) |-> IF IsSpace(s[kept[p]]) THEN SPACE ELSE s[kept[p]]] \o <<>>

\* the character class [0-9a-zA-Z가-힣\s] of fuzzy_key
IsKeyChar(c) ==
  \/ c >= 48 /\ c <= 57
  \/ c >= 97 /\ c <= 122
  \/ c >= 65 /\ c <= 90
  \/ c >= 44032 /\ c <= 55203
  \/ IsSpace(c)

\* re.sub(r"[^0-9a-zA-Z...\s]", " ", s)
BlankNonKeyChars(s) ==
  [i \in 1..Len(s) |-> IF IsKeyChar(s[i]) THEN s[i] ELSE SPACE] \o <<>>

\* s[:n]
Prefix(s, n) == SubSeq(s, 1, IF Len(s) < n THEN Len(s) ELSE n)

\* Python's order on str: lexicographic by code point, a proper prefix first
\* (d is the first position where the two differ or one of them ends)
StrLess(a, b) ==
  LET m == IF Len(a) < Len(b) THEN Len(a) ELSE Len(b)
      d == CHOOSE i \in 1..(m + 1) : i > m \/ a[i] # b[i]
  IN  IF d > Len(b) THEN FALSE
      ELSE IF d > Len(a) THEN TRUE
      ELSE a[d] < b[d]

\* k in text
SubstringOf(k, text) ==
  \E i \in 0..(Len(text) - Len(k)) : \A j \in 1..Len(k) : text[i + j] = k[j]

\* f"{title} {summary}"
JoinText(title, summary) == title \o <<SPACE>> \o summary

(***************************************************************************)
(* Lexicons (digest.py lines 78-109 and 375-390), in declaration order.    *)
(* The Korean theme names are rendered in English: rates/fed/inflation,    *)
(* fx/dollar/treasuries, us-data/economy, tech/semis/ai, china/policy,     *)
(* geopolitics/commodities and the default theme, other.                   *)
(***************************************************************************)
KEYWORDS ==
  <<
    [k |-> <<44552, 47532>>, w |-> 3],   \* Korean geumri (interest rate)
    [k |-> <<50672, 51456>>, w |-> 3],   \* Korean yeonjun (the Fed)
    [k |-> <<102, 101, 100>>, w |-> 3],   \* "fed"
    [k |-> <<102, 111, 109, 99>>, w |-> 3],   \* "fomc"
    [k |-> <<104, 97, 119, 107, 105, 115, 104>>, w |-> 3],   \* "hawkish"
    [k |-> <<100, 111, 118, 105, 115, 104>>, w |-> 3],   \* "dovish"
    [k |-> <<105, 110, 102, 108, 97, 116, 105, 111, 110>>, w |-> 3],   \* "inflation"
    [k |-> <<47932, 44032>>, w |-> 3],   \* Korean mulga (prices)
    [k |-> <<99, 112, 105>>, w |-> 3],   \* "cpi"
    [k |-> <<112, 112, 105>>, w |-> 2],   \* "ppi"
    [k |-> <<99, 111, 114, 101, 32, 99, 112, 105>>, w |-> 3],   \* "core cpi"
    [k |-> <<44256, 50857>>, w |-> 3],   \* Korean goyong (employment)
    [k |-> <<106, 111, 98, 115>>, w |-> 3],   \* "jobs"
    [k |-> <<110, 102, 112>>, w |-> 3],   \* "nfp"
    [k |-> <<112, 109, 105>>, w |-> 3],   \* "pmi"
    [k |-> <<103, 100, 112>>, w |-> 2],   \* "gdp"
    [k |-> <<52840, 52404>>, w |-> 3],   \* Korean chimche (recession)
    [k |-> <<114, 101, 99, 101, 115, 115, 105, 111, 110>>, w |-> 3],   \* "recession"
    [k |-> <<115, 111, 102, 116, 32, 108, 97, 110, 100, 105, 110, 103>>, w |-> 2],   \* "soft landing"
    [k |-> <<54872, 50984>>, w |-> 3],   \* Korean hwanyul (exchange rate)
    [k |-> <<45804, 47084>>, w |-> 3],   \* Korean dalleo (dollar)
    [k |-> <<100, 111, 108, 108, 97, 114>>, w |-> 3],   \* "dollar"
    [k |-> <<100, 120, 121>>, w |-> 3],   \* "dxy"
    [k |-> <<121, 101, 110>>, w |-> 2],   \* "yen"
    [k |-> <<121, 117, 97, 110>>, w |-> 2],   \* "yuan"
    [k |-> <<52292, 44428>>, w |-> 2],   \* Korean chaegwon (bond)
    [k |-> <<44397, 52292>>, w |-> 3],   \* Korean gukchae (treasury)
    [k |-> <<98, 111, 110, 100>>, w |-> 2],   \* "bond"
    [k |-> <<116, 114, 101, 97, 115, 117, 114, 121>>, w |-> 3],   \* "treasury"
    [k |-> <<121, 105, 101, 108, 100>>, w |-> 3],   \* "yield"
    [k |-> <<49, 48, 45, 121, 101, 97, 114>>, w |-> 2],   \* "10-year"
    [k |-> <<50, 45, 121, 101, 97, 114>>, w |-> 2],   \* "2-year"
    [k |-> <<45208, 49828, 45797>>, w |-> 2],   \* Korean naseudak (nasdaq)
    [k |-> <<110, 97, 115, 100, 97, 113>>, w |-> 2],   \* "nasdaq"
    [k |-> <<115, 38, 112>>, w |-> 2],   \* "s&p"
    [k |-> <<115, 112, 53, 48, 48>>, w |-> 2],   \* "sp500"
    [k |-> <<100, 111, 119>>, w |-> 1],   \* "dow"
    [k |-> <<48152, 46020, 52404>>, w |-> 3],   \* Korean bandoche (semiconductor)
    [k |-> <<115, 101, 109, 105, 99, 111, 110, 100, 117, 99, 116, 111, 114>>, w |-> 3],   \* "semiconductor"
    [k |-> <<97, 105>>, w |-> 2],   \* "ai"
    [k |-> <<103, 112, 117>>, w |-> 2],   \* "gpu"
    [k |-> <<110, 118, 105, 100, 105, 97>>, w |-> 2],   \* "nvidia"
    [k |-> <<116, 115, 109, 99>>, w |-> 2],   \* "tsmc"
    [k |-> <<51648, 51221, 54617>>, w |-> 3],   \* Korean jijeonghak (geopolitics)
    [k |-> <<103, 101, 111, 112, 111, 108, 105, 116, 105, 99, 115>>, w |-> 3],   \* "geopolitics"
    [k |-> <<51204, 51137>>, w |-> 3],   \* Korean jeonjaeng (war)
    [k |-> <<119, 97, 114>>, w |-> 3],   \* "war"
    [k |-> <<51228, 51116>>, w |-> 3],   \* Korean jejae (sanction)
    [k |-> <<115, 97, 110, 99, 116, 105, 111, 110>>, w |-> 3],   \* "sanction"
    [k |-> <<50976, 44032>>, w |-> 3],   \* Korean yuga (oil price)
    [k |-> <<111, 105, 108>>, w |-> 3],   \* "oil"
    [k |-> <<119, 116, 105>>, w |-> 2],   \* "wti"
    [k |-> <<98, 114, 101, 110, 116>>, w |-> 2],   \* "brent"
    [k |-> <<50896, 51088, 51116>>, w |-> 2],   \* Korean wonjajae (commodities)
    [k |-> <<99, 111, 109, 109, 111, 100, 105, 116, 105, 101, 115>>, w |-> 2],   \* "commodities"
    [k |-> <<51473, 44397>>, w |-> 2],   \* Korean jungguk (China)
    [k |-> <<99, 104, 105, 110, 97>>, w |-> 2],   \* "china"
    [k |-> <<115, 116, 105, 109, 117, 108, 117, 115>>, w |-> 2],   \* "stimulus"
    [k |-> <<112, 98, 111, 32, 99>>, w |-> 2],   \* "pbo c"
    [k |-> <<112, 114, 111, 112, 101, 114, 116, 121>>, w |-> 2]   \* "property"
  >>

THEMES ==
  <<
    [theme |-> "rates/fed/inflation", keys |-> <<
        <<44552, 47532>>,   \* Korean geumri (interest rate)
        <<50672, 51456>>,   \* Korean yeonjun (the Fed)
        <<102, 101, 100>>,   \* "fed"
        <<102, 111, 109, 99>>,   \* "fomc"
        <<104, 97, 119, 107, 105, 115, 104>>,   \* "hawkish"
        <<100, 111, 118, 105, 115, 104>>,   \* "dovish"
        <<105, 110, 102, 108, 97, 116, 105, 111, 110>>,   \* "inflation"
        <<99, 112, 105>>,   \* "cpi"
        <<112, 112, 105>>,   \* "ppi"
        <<47932, 44032>>   \* Korean mulga (prices)
    >>],
    [theme |-> "fx/dollar/treasuries", keys |-> <<
        <<54872, 50984>>,   \* Korean hwanyul (exchange rate)
        <<45804, 47084>>,   \* Korean dalleo (dollar)
        <<100, 111, 108, 108, 97, 114>>,   \* "dollar"
        <<100, 120, 121>>,   \* "dxy"
        <<52292, 44428>>,   \* Korean chaegwon (bond)
        <<44397, 52292>>,   \* Korean gukchae (treasury)
        <<116, 114, 101, 97, 115, 117, 114, 121>>,   \* "treasury"
        <<121, 105, 101, 108, 100>>,   \* "yield"
        <<98, 111, 110, 100>>,   \* "bond"
        <<49, 48, 45, 121, 101, 97, 114>>,   \* "10-year"
        <<50, 45, 121, 101, 97, 114>>,   \* "2-year"
        <<121, 101, 110>>,   \* "yen"
        <<121, 117, 97, 110>>   \* "yuan"
    >>],
    [theme |-> "us-data/economy", keys |-> <<
        <<44256, 50857>>,   \* Korean goyong (employment)
        <<106, 111, 98, 115>>,   \* "jobs"
        <<110, 102, 112>>,   \* "nfp"
        <<112, 109, 105>>,   \* "pmi"
        <<103, 100, 112>>,   \* "gdp"
        <<52840, 52404>>,   \* Korean chimche (recession)
        <<114, 101, 99, 101, 115, 115, 105, 111, 110>>,   \* "recession"
        <<115, 111, 102, 116, 32, 108, 97, 110, 100, 105, 110, 103>>   \* "soft landing"
    >>],
    [theme |-> "tech/semis/ai", keys |-> <<
        <<45208, 49828, 45797>>,   \* Korean naseudak (nasdaq)
        <<110, 97, 115, 100, 97, 113>>,   \* "nasdaq"
        <<115, 38, 112>>,   \* "s&p"
        <<115, 112, 53, 48, 48>>,   \* "sp500"
        <<48152, 46020, 52404>>,   \* Korean bandoche (semiconductor)
        <<115, 101, 109, 105, 99, 111, 110, 100, 117, 99, 116, 111, 114>>,   \* "semiconductor"
        <<97, 105>>,   \* "ai"
        <<103, 112, 117>>,   \* "gpu"
        <<110, 118, 105, 100, 105, 97>>,   \* "nvidia"
        <<116, 115, 109, 99>>   \* "tsmc"
    >>],
    [theme |-> "china/policy", keys |-> <<
        <<51473, 44397>>,   \* Korean jungguk (China)
        <<99, 104, 105, 110, 97>>,   \* "china"
        <<115, 116, 105, 109, 117, 108, 117, 115>>,   \* "stimulus"
        <<112, 98, 111, 32, 99>>,   \* "pbo c"
        <<112, 114, 111, 112, 101, 114, 116, 121>>,   \* "property"
        <<121, 117, 97, 110>>   \* "yuan"
    >>],
    [theme |-> "geopolitics/commodities", keys |-> <<
        <<51648, 51221, 54617>>,   \* Korean jijeonghak (geopolitics)
        <<103, 101, 111, 112, 111, 108, 105, 116, 105, 99, 115>>,   \* "geopolitics"
        <<51204, 51137>>,   \* Korean jeonjaeng (war)
        <<119, 97, 114>>,   \* "war"
        <<51228, 51116>>,   \* Korean jejae (sanction)
        <<115, 97, 110, 99, 116, 105, 111, 110>>,   \* "sanction"
        <<50976, 44032>>,   \* Korean yuga (oil price)
        <<111, 105, 108>>,   \* "oil"
        <<119, 116, 105>>,   \* "wti"
        <<98, 114, 101, 110, 116>>,   \* "brent"
        <<50896, 51088, 51116>>,   \* Korean wonjajae (commodities)
        <<99, 111, 109, 109, 111, 100, 105, 116, 105, 101, 115>>   \* "commodities"
    >>]
  >>

RISK_OFF_TERMS ==
  <<
    <<104, 97, 119, 107, 105, 115, 104>>,   \* "hawkish"
    <<114, 97, 116, 101, 32, 104, 105, 107, 101>>,   \* "rate hike"
    <<104, 105, 107, 101>>,   \* "hike"
    <<104, 111, 116, 32, 105, 110, 102, 108, 97, 116, 105, 111, 110>>,   \* "hot inflation"
    <<105, 110, 102, 108, 97, 116, 105, 111, 110, 32, 97, 99, 99, 101, 108, 101, 114, 97, 116>>,   \* "inflation accelerat"
    <<99, 112, 105, 32, 98, 101, 97, 116>>,   \* "cpi beat"
    <<112, 112, 105, 32, 98, 101, 97, 116>>,   \* "ppi beat"
    <<121, 105, 101, 108, 100, 32, 115, 117, 114, 103, 101>>,   \* "yield surge"
    <<121, 105, 101, 108, 100, 115, 32, 115, 117, 114, 103, 101>>,   \* "yields surge"
    <<98, 111, 110, 100, 32, 115, 101, 108, 108, 111, 102, 102>>,   \* "bond selloff"
    <<114, 105, 115, 107, 45, 111, 102, 102>>,   \* "risk-off"
    <<115, 101, 108, 108, 45, 111, 102, 102>>,   \* "sell-off"
    <<103, 101, 111, 112, 111, 108, 105, 116, 105, 99, 115>>,   \* "geopolitics"
    <<119, 97, 114>>,   \* "war"
    <<97, 116, 116, 97, 99, 107>>,   \* "attack"
    <<115, 97, 110, 99, 116, 105, 111, 110>>,   \* "sanction"
    <<116, 101, 110, 115, 105, 111, 110>>,   \* "tension"
    <<111, 105, 108, 32, 115, 112, 105, 107, 101>>,   \* "oil spike"
    <<111, 105, 108, 32, 106, 117, 109, 112, 115>>,   \* "oil jumps"
    <<119, 116, 105, 32, 106, 117, 109, 112, 115>>,   \* "wti jumps"
    <<98, 114, 101, 110, 116, 32, 106, 117, 109, 112, 115>>   \* "brent jumps"
  >>

RISK_ON_TERMS ==
  <<
    <<100, 111, 118, 105, 115, 104>>,   \* "dovish"
    <<114, 97, 116, 101, 32, 99, 117, 116>>,   \* "rate cut"
    <<99, 117, 116>>,   \* "cut"
    <<105, 110, 102, 108, 97, 116, 105, 111, 110, 32, 99, 111, 111, 108, 105, 110, 103>>,   \* "inflation cooling"
    <<99, 112, 105, 32, 109, 105, 115, 115>>,   \* "cpi miss"
    <<121, 105, 101, 108, 100, 115, 32, 102, 97, 108, 108>>,   \* "yields fall"
    <<98, 111, 110, 100, 32, 114, 97, 108, 108, 121>>,   \* "bond rally"
    <<115, 111, 102, 116, 32, 108, 97, 110, 100, 105, 110, 103>>,   \* "soft landing"
    <<115, 116, 105, 109, 117, 108, 117, 115>>,   \* "stimulus"
    <<101, 97, 115, 105, 110, 103>>,   \* "easing"
    <<114, 105, 115, 107, 45, 111, 110>>   \* "risk-on"
  >>

STRONG_TERMS ==
  <<
    <<115, 117, 114, 103, 101>>,   \* "surge"
    <<115, 112, 105, 107, 101>>,   \* "spike"
    <<115, 111, 97, 114>>,   \* "soar"
    <<112, 108, 117, 110, 103, 101>>,   \* "plunge"
    <<101, 109, 101, 114, 103, 101, 110, 99, 121>>,   \* "emergency"
    <<97, 116, 116, 97, 99, 107>>,   \* "attack"
    <<115, 97, 110, 99, 116, 105, 111, 110>>,   \* "sanction"
    <<115, 104, 111, 99, 107>>,   \* "shock"
    <<117, 110, 101, 120, 112, 101, 99, 116, 101, 100>>,   \* "unexpected"
    <<114, 101, 99, 111, 114, 100>>   \* "record"
  >>

MEDIUM_TERMS ==
  <<
    <<106, 117, 109, 112>>,   \* "jump"
    <<114, 105, 115, 101>>,   \* "rise"
    <<102, 97, 108, 108>>,   \* "fall"
    <<100, 114, 111, 112>>,   \* "drop"
    <<119, 97, 114, 110>>,   \* "warn"
    <<99, 111, 110, 99, 101, 114, 110>>,   \* "concern"
    <<119, 101, 105, 103, 104, 115>>,   \* "weighs"
    <<98, 111, 111, 115, 116>>,   \* "boost"
    <<112, 114, 101, 115, 115, 117, 114, 101>>   \* "pressure"
  >>

DIRECTION_UP_TERMS ==
  <<
    <<99, 117, 116>>,   \* "cut"
    <<100, 111, 118, 105, 115, 104>>,   \* "dovish"
    <<99, 111, 111, 108, 105, 110, 103>>,   \* "cooling"
    <<121, 105, 101, 108, 100, 115, 32, 102, 97, 108, 108>>,   \* "yields fall"
    <<98, 111, 110, 100, 32, 114, 97, 108, 108, 121>>,   \* "bond rally"
    <<115, 116, 105, 109, 117, 108, 117, 115>>,   \* "stimulus"
    <<101, 97, 115, 105, 110, 103>>,   \* "easing"
    <<98, 101, 97, 116, 115, 32, 101, 120, 112, 101, 99, 116, 97, 116, 105, 111, 110, 115>>,   \* "beats expectations"
    <<114, 101, 99, 111, 114, 100, 32, 112, 114, 111, 102, 105, 116>>   \* "record profit"
  >>

DIRECTION_DOWN_TERMS ==
  <<
    <<104, 105, 107, 101>>,   \* "hike"
    <<104, 97, 119, 107, 105, 115, 104>>,   \* "hawkish"
    <<104, 111, 116, 32, 105, 110, 102, 108, 97, 116, 105, 111, 110>>,   \* "hot inflation"
    <<121, 105, 101, 108, 100, 115, 32, 115, 117, 114, 103, 101>>,   \* "yields surge"
    <<98, 111, 110, 100, 32, 115, 101, 108, 108, 111, 102, 102>>,   \* "bond selloff"
    <<115, 97, 110, 99, 116, 105, 111, 110>>,   \* "sanction"
    <<97, 116, 116, 97, 99, 107>>,   \* "attack"
    <<116, 101, 110, 115, 105, 111, 110>>,   \* "tension"
    <<111, 105, 108, 32, 115, 112, 105, 107, 101>>   \* "oil spike"
  >>

FALLBACK_RISK_TERMS ==
  <<
    <<104, 97, 119, 107, 105, 115, 104>>,   \* "hawkish"
    <<121, 105, 101, 108, 100>>,   \* "yield"
    <<119, 97, 114>>,   \* "war"
    <<97, 116, 116, 97, 99, 107>>,   \* "attack"
    <<115, 97, 110, 99, 116, 105, 111, 110>>,   \* "sanction"
    <<111, 105, 108>>,   \* "oil"
    <<105, 110, 102, 108, 97, 116, 105, 111, 110>>   \* "inflation"
  >>


(***************************************************************************)
(* The feed entries the runs draw from: what a feed or the article search  *)
(* may return for one entry (its date, inside the recency window, is       *)
(* left out).                                                              *)
(***************************************************************************)
\* score 9, Medium; longer than the fuzzy key
\*   title "Jobs, NFP and PMI: weekly data roundup for traders and investors in markets worldwide - Reuters"
\*   link "https://a.io/1", summary ""
E1 ==
  [title |-> <<74, 111, 98, 115, 44, 32, 78, 70, 80, 32, 97, 110, 100, 32, 80, 77, 73, 58, 32, 119,
              101, 101, 107, 108, 121, 32, 100, 97, 116, 97, 32, 114, 111, 117, 110, 100, 117, 112,
              32, 102, 111, 114, 32, 116, 114, 97, 100, 101, 114, 115, 32, 97, 110, 100, 32, 105, 110,
              118, 101, 115, 116, 111, 114, 115, 32, 105, 110, 32, 109, 97, 114, 107, 101, 116, 115,
              32, 119, 111, 114, 108, 100, 119, 105, 100, 101, 32, 45, 32, 82, 101, 117, 116, 101,
              114, 115>>,
   link |-> <<104, 116, 116, 112, 115, 58, 47, 47, 97, 46, 105, 111, 47, 49>>,
   summary |-> <<>>]

\* E1's headline republished: another link, the same fuzzy key
\*   title "jobs nfp and pmi weekly data roundup for traders and investors in markets worldwide | Bloomberg"
\*   link "https://b.io/2", summary ""
E2 ==
  [title |-> <<106, 111, 98, 115, 32, 110, 102, 112, 32, 97, 110, 100, 32, 112, 109, 105, 32, 119, 101,
              101, 107, 108, 121, 32, 100, 97, 116, 97, 32, 114, 111, 117, 110, 100, 117, 112, 32,
              102, 111, 114, 32, 116, 114, 97, 100, 101, 114, 115, 32, 97, 110, 100, 32, 105, 110,
              118, 101, 115, 116, 111, 114, 115, 32, 105, 110, 32, 109, 97, 114, 107, 101, 116, 115,
              32, 119, 111, 114, 108, 100, 119, 105, 100, 101, 32, 124, 32, 66, 108, 111, 111, 109,
              98, 101, 114, 103>>,
   link |-> <<104, 116, 116, 112, 115, 58, 47, 47, 98, 46, 105, 111, 47, 50>>,
   summary |-> <<>>]

\* score 5, High, two themes
\*   title "PPI jobs surge"
\*   link "https://a.io/3", summary ""
E3 ==
  [title |-> <<80, 80, 73, 32, 106, 111, 98, 115, 32, 115, 117, 114, 103, 101>>,
   link |-> <<104, 116, 116, 112, 115, 58, 47, 47, 97, 46, 105, 111, 47, 51>>,
   summary |-> <<>>]

\* score 9, Medium; needs normalising
\*   title " NFP  PMI jobs "
\*   link "https://a.io/4", summary "weekly"
E4 ==
  [title |-> <<32, 78, 70, 80, 32, 32, 80, 77, 73, 32, 106, 111, 98, 115, 32>>,
   link |-> <<104, 116, 116, 112, 115, 58, 47, 47, 97, 46, 105, 111, 47, 52>>,
   summary |-> <<119, 101, 101, 107, 108, 121>>]

\* no title
\*   title ""
\*   link "https://a.io/5", summary ""
E5 ==
  [title |-> <<>>,
   link |-> <<104, 116, 116, 112, 115, 58, 47, 47, 97, 46, 105, 111, 47, 53>>,
   summary |-> <<>>]

\* no link; score 1, Low, default theme
\*   title "Dow"
\*   link "", summary ""
E6 ==
  [title |-> <<68, 111, 119>>,
   link |-> <<>>,
   summary |-> <<>>]

ENTRIES == {E1, E2, E3, E4, E5, E6}

\* the entries a collector may return in a run of main
MAIN_ENTRIES == {E1, E2, E3, E5}

\* the title/summary pairs handed to analyze_signal in the signal-level runs
\* "PPI jobs surge", "Yen drop", "GDP and jobs", "Record fall", "Rate hike",
\* "Rate cut", "Hawkish cut", "Hike then cut", "Oil steady", "Stimulus surge",
\* "Oil sanction", "Oil stimulus", "Sanction easing", and "Calm" with the
\* summary "Yen fed"
SIGNAL_TEXTS ==
  { [title |-> E3.title, summary |-> <<>>],
    [title |-> <<89, 101, 110, 32, 100, 114, 111, 112>>, summary |-> <<>>],
    [title |-> <<71, 68, 80, 32, 97, 110, 100, 32, 106, 111, 98, 115>>, summary |-> <<>>],
    [title |-> <<82, 101, 99, 111, 114, 100, 32, 102, 97, 108, 108>>, summary |-> <<>>],
    [title |-> <<82, 97, 116, 101, 32, 104, 105, 107, 101>>, summary |-> <<>>],
    [title |-> <<82, 97, 116, 101, 32, 99, 117, 116>>, summary |-> <<>>],
    [title |-> <<72, 97, 119, 107, 105, 115, 104, 32, 99, 117, 116>>, summary |-> <<>>],
    [title |-> <<72, 105, 107, 101, 32, 116, 104, 101, 110, 32, 99, 117, 116>>, summary |-> <<>>],
    [title |-> <<79, 105, 108, 32, 115, 116, 101, 97, 100, 121>>, summary |-> <<>>],
    [title |-> <<83, 116, 105, 109, 117, 108, 117, 115, 32, 115, 117, 114, 103, 101>>, summary |-> <<>>],
    [title |-> <<79, 105, 108, 32, 115, 97, 110, 99, 116, 105, 111, 110>>, summary |-> <<>>],
    [title |-> <<79, 105, 108, 32, 115, 116, 105, 109, 117, 108, 117, 115>>, summary |-> <<>>],
    [title |-> <<83, 97, 110, 99, 116, 105, 111, 110, 32, 101, 97, 115, 105, 110, 103>>, summary |-> <<>>],
    [title |-> <<67, 97, 108, 109>>, summary |-> <<89, 101, 110, 32, 102, 101, 100>>] }

\* the theme lists handed to analyze_signal in the signal-level runs
SIGNAL_THEMES ==
  { <<"other">>, <<"us-data/economy">>, <<"rates/fed/inflation", "us-data/economy">>,
    <<"tech/semis/ai", "geopolitics/commodities">> }

\* all sequences over S of length at most n
SeqsUpTo(S, n) == UNION {[1..k -> S] : k \in 0..n}

(***************************************************************************)
(* Substring tests.  TermsIn(text) is the set of the lexicon terms k with   *)
(* `k in text`; the texts of the entries above are tested against every    *)
(* term once, and the outcome is looked up afterwards.                     *)
(***************************************************************************)
ALL_TERMS ==
  {Lower(KEYWORDS[i].k) : i \in 1..Len(KEYWORDS)}
    \cup UNION {{Lower(THEMES[i].keys[j]) : j \in 1..Len(THEMES[i].keys)} : i \in 1..Len(THEMES)}
    \cup {RISK_OFF_TERMS[i] : i \in 1..Len(RISK_OFF_TERMS)}
    \cup {RISK_ON_TERMS[i] : i \in 1..Len(RISK_ON_TERMS)}
    \cup {STRONG_TERMS[i] : i \in 1..Len(STRONG_TERMS)}
    \cup {MEDIUM_TERMS[i] : i \in 1..Len(MEDIUM_TERMS)}
    \cup {DIRECTION_UP_TERMS[i] : i \in 1..Len(DIRECTION_UP_TERMS)}
    \cup {DIRECTION_DOWN_TERMS[i] : i \in 1..Len(DIRECTION_DOWN_TERMS)}
    \cup {FALLBACK_RISK_TERMS[i] : i \in 1..Len(FALLBACK_RISK_TERMS)}

KNOWN_TEXTS ==
  {Lower(JoinText(e.title, e.summary)) : e \in ENTRIES \cup SIGNAL_TEXTS}
    \cup {Lower(JoinText(CollapseSpaces(Strip(e.title)), CollapseSpaces(Strip(e.summary)))) : e \in ENTRIES}
    \cup {Lower(JoinText(CollapseSpaces(Strip(e.title)), <<>>)) : e \in ENTRIES}

TermsFound == [text \in KNOWN_TEXTS |-> {k \in ALL_TERMS : SubstringOf(k, text)}]

TermsIn(text) ==
  IF text \in DOMAIN TermsFound THEN TermsFound[text]
  ELSE {k \in ALL_TERMS : SubstringOf(k, text)}
\* themes that add to the strength score (analyze_signal, line 430)
HIGH_IMPACT_THEMES == <<"rates/fed/inflation", "fx/dollar/treasuries", "geopolitics/commodities">>

\* the default theme ("gita", other)
DEFAULT_THEME == "other"

(***************************************************************************)
(* Utils.                                                                  *)
(***************************************************************************)
\* a sequence as the set of its elements
Range(s) == {s[i] : i \in 1..Len(s)}

Min(a, b) == IF a < b THEN a ELSE b

norm(s) == CollapseSpaces(Strip(s))

\* hashlib.sha256(base).hexdigest(): the digest is modelled by the text it is a
\* digest of, two digests being equal exactly when the texts are
sha256(base) == <<"sha256", base>>

stable_id(title, link) == sha256(Lower(norm(title)) \o <<PIPE>> \o Lower(norm(link)))

fuzzy_key(title) ==
  Prefix(Strip(CollapseSpaces(BlankNonKeyChars(Lower(title)))), FuzzyLen)

\* the weights of the keywords KEYWORDS[lo..hi] that are in the text, summed;
\* found holds the terms k with `k in text`
RECURSIVE ScoreRange(_, _, _)
ScoreRange(found, lo, hi) ==
  IF lo > hi THEN 0
  ELSE IF lo = hi
       THEN (IF Lower(KEYWORDS[lo].k) \in found THEN KEYWORDS[lo].w ELSE 0)
       ELSE ScoreRange(found, lo, (lo + hi) \div 2)
              + ScoreRange(found, (lo + hi) \div 2 + 1, hi)

score_text(title, summary) ==
  ScoreRange(TermsIn(Lower(JoinText(title, summary))), 1, Len(KEYWORDS))

\* any(k in text for k in terms); found holds the terms k with `k in text`
AnyIn(terms, found) == \E i \in 1..Len(terms) : terms[i] \in found

ThemeNames(ths) == [i \in 1..Len(ths) |-> ths[i].theme]

\* a faulty variant of classify_themes: no break, the theme is appended once
\* for each of its keywords found
classify_themesNoBreak(title, summary) ==
  LET found == TermsIn(Lower(JoinText(title, summary)))
      hits(t) == Cardinality({j \in 1..Len(t.keys) : Lower(t.keys[j]) \in found})
      times(th, n) == [k \in 1..n |-> th]
      from[i \in 1..(Len(THEMES) + 1)] ==
        IF i > Len(THEMES) THEN <<>>
        ELSE times(THEMES[i].theme, hits(THEMES[i])) \o from[i + 1]
  IN  IF from[1] = <<>> THEN <<DEFAULT_THEME>> ELSE from[1]

classify_themes(title, summary) ==
  LET found == TermsIn(Lower(JoinText(title, summary)))
      hit(t) == \E i \in 1..Len(t.keys) : Lower(t.keys[i]) \in found
      matched == ThemeNames(SelectSeq(THEMES, hit))
  IN  IF matched = <<>> THEN <<DEFAULT_THEME>> ELSE matched

(***************************************************************************)
(* Item dictionaries: a dict is a function from its keys, so that a key    *)
(* can be absent (d.get(key, default)) and can be added (d[key] = value).  *)
(* None and the empty string are both the empty sequence.                  *)
(***************************************************************************)
Get(d, key, default) == IF key \in DOMAIN d THEN d[key] ELSE default

Put(d, key, value) ==
  [k \in DOMAIN d \cup {key} |-> IF k = key THEN value ELSE d[k]]

\* truthiness of a str or None
Truthy(v) == v # <<>>

\* list.sort(key=..., reverse=True): descending, and stable (elements with equal
\* keys keep their order).  gt[i][j]: the key of s[i] is greater than the key of
\* s[j].  Element i lands after the elements with a greater key and after the
\* earlier elements with an equal key.
SortDesc(s, gt) ==
  LET n == Len(s)
      pos(i) == 1 + Cardinality({j \in 1..n : gt[j][i]})
                  + Cardinality({j \in 1..(i - 1) : ~gt[j][i] /\ ~gt[i][j]})
      at == [i \in 1..n |-> pos(i)] \o <<>>
  IN  [p \in 1..n |-> s[CHOOSE i \in 1..n : at[i] = p]] \o <<>>

(***************************************************************************)
(* dedupe_score (lines 344-369).                                           *)
(***************************************************************************)
\* lines 345-347: the loop's state before the first item
DedupeStart(items) ==
  [seen_id |-> {}, seen_fuzzy |-> {}, out |-> <<>>, items |-> items]

\* line 350
StrongId(it) ==
  IF Truthy(Get(it, "id", <<>>)) THEN it["id"]
  ELSE stable_id(Get(it, "title", <<>>), Get(it, "link", <<>>))

\* line 351
FuzzyOf(it) == fuzzy_key(Get(it, "title", <<>>))

\* a faulty variant of Scored: the score is added to the one the dict holds
ScoredAccumulate(it) ==
  LET title == Get(it, "title", <<>>)
      summary == Get(it, "summary", <<>>)
  IN  Put(Put(Put(it, "id", StrongId(it)),
              "score", Get(it, "score", 0) + score_text(title, summary)),
          "themes", classify_themes(title, summary))

\* lines 361-365: the accepted dict, updated in place
Scored(it) ==
  LET title == Get(it, "title", <<>>)
      summary == Get(it, "summary", <<>>)
  IN  Put(Put(Put(it, "id", StrongId(it)),
              "score", score_text(title, summary)),
          "themes", classify_themes(title, summary))

\* a faulty variant of DedupeStep: the fuzzy key is recorded and never looked up
DedupeStepIdOnly(st, i) ==
  LET it == st.items[i]
      sid == StrongId(it)
      fk == FuzzyOf(it)
  IN  IF sid \in st.seen_id THEN st
      ELSE LET it2 == Scored(it)
           IN  [seen_id |-> st.seen_id \cup {sid},
                seen_fuzzy |-> st.seen_fuzzy \cup {fk},
                out |-> Append(st.out, it2),
                items |-> [st.items EXCEPT ![i] = it2]]

\* lines 350-366: one iteration of the loop, on items[i]
DedupeStep(st, i) ==
  LET it == st.items[i]
      sid == StrongId(it)
      fk == FuzzyOf(it)
  IN  IF sid \in st.seen_id THEN st
      ELSE IF fk \in st.seen_fuzzy THEN st
      ELSE LET it2 == Scored(it)
           IN  [seen_id |-> st.seen_id \cup {sid},
                seen_fuzzy |-> st.seen_fuzzy \cup {fk},
                out |-> Append(st.out, it2),
                items |-> [st.items EXCEPT ![i] = it2]]

\* lines 349-366: the loop from item i on
RECURSIVE DedupeLoop(_, _)
DedupeLoop(st, i) ==
  IF i > Len(st.items) THEN st ELSE DedupeLoop(DedupeStep(st, i), i + 1)

\* a faulty variant of DedupeKeyGt: the sort key is the score alone
DedupeKeyGtScoreOnly(a, b) == Get(a, "score", 0) > Get(b, "score", 0)

\* line 368: the sort key (score, title), compared as Python compares tuples
DedupeKeyGt(a, b) ==
  \/ Get(a, "score", 0) > Get(b, "score", 0)
  \/ /\ Get(a, "score", 0) = Get(b, "score", 0)
     /\ StrLess(Get(b, "title", <<>>), Get(a, "title", <<>>))

\* lines 349-368: the survivors, ranked
DedupeRanked(items) ==
  LET o == DedupeLoop(DedupeStart(items), 1).out
  IN  SortDesc(o, [i \in 1..Len(o) |-> [j \in 1..Len(o) |-> DedupeKeyGt(o[i], o[j])]])

\* a faulty variant of Cap: the last top_n of the ranking
CapTail(out, top_n) ==
  SubSeq(out, Len(out) - Min(top_n, Len(out)) + 1, Len(out))

\* line 369: out[:top_n]
Cap(out, top_n) == Prefix(out, top_n)

dedupe_score(items, top_n) == Cap(DedupeRanked(items), top_n)

\* the caller's list after the call: the accepted dicts were updated in place
dedupe_score_items(items) == DedupeLoop(DedupeStart(items), 1).items

(***************************************************************************)
(* analyze_signal (lines 393-471).  Strength is High, Medium or Low for    *)
(* the source's sang, jung, ha; direction is Up, Down or Neutral for its   *)
(* arrows; stars is the number of stars.  found holds the lexicon terms k   *)
(* with `k in text`, text being the lowercased title and summary.          *)
(***************************************************************************)
\* a faulty variant of RiskMode: a risk-off term decides, whatever else matches
RiskModeOffFirst(found) ==
  IF AnyIn(RISK_OFF_TERMS, found) THEN "Risk-off"
  ELSE IF AnyIn(RISK_ON_TERMS, found) THEN "Risk-on"
  ELSE IF AnyIn(FALLBACK_RISK_TERMS, found) THEN "Risk-off"
  ELSE "Mixed"

\* lines 397-408
RiskMode(found) ==
  LET risk_off == AnyIn(RISK_OFF_TERMS, found)
      risk_on == AnyIn(RISK_ON_TERMS, found)
  IN  IF risk_off /\ ~risk_on THEN "Risk-off"
      ELSE IF risk_on /\ ~risk_off THEN "Risk-on"
      ELSE IF AnyIn(FALLBACK_RISK_TERMS, found) THEN "Risk-off"
      ELSE "Mixed"

\* lines 411-418
Direction(found) ==
  LET down == AnyIn(DIRECTION_DOWN_TERMS, found)
      up == AnyIn(DIRECTION_UP_TERMS, found)
  IN  IF up /\ ~down THEN "Up"
      ELSE IF down /\ ~up THEN "Down"
      ELSE "Neutral"

\* lines 424-427
TermBonus(found) ==
  IF AnyIn(STRONG_TERMS, found) THEN StrongBonus
  ELSE IF AnyIn(MEDIUM_TERMS, found) THEN MediumBonus
  ELSE 0

\* lines 430-431
ThemeEmphasis(themes) ==
  IF \E i \in 1..Len(HIGH_IMPACT_THEMES) : HIGH_IMPACT_THEMES[i] \in Range(themes)
  THEN ThemeBonus ELSE 0

\* lines 421-431
StrengthScore(found, themes, score) ==
  Min(ScoreCap, score) + TermBonus(found) + ThemeEmphasis(themes)

\* a faulty variant of StrengthOf: the thresholds are compared with >
StrengthOfStrict(strength_score) ==
  IF strength_score > HighThreshold THEN "High"
  ELSE IF strength_score > MediumThreshold THEN "Medium"
  ELSE "Low"

\* lines 433-441
StrengthOf(strength_score) ==
  IF strength_score >= HighThreshold THEN "High"
  ELSE IF strength_score >= MediumThreshold THEN "Medium"
  ELSE "Low"

StarsOf(strength) ==
  IF strength = "High" THEN 3 ELSE IF strength = "Medium" THEN 2 ELSE 1

\* a faulty variant of TradeAction: the direction is not looked at
TradeActionAnyHigh(strength, direction) ==
  IF strength = "High" THEN "open-range attempt"
  ELSE IF strength = "Medium" THEN "partial scale-in"
  ELSE "observe only"

\* lines 444-449
TradeAction(strength, direction) ==
  IF strength = "High" /\ direction \in {"Up", "Down"} THEN "open-range attempt"
  ELSE IF strength = "Medium" THEN "partial scale-in"
  ELSE "observe only"

\* lines 456-461: the first keywords found, at most MaxHits of them
Hits(found) ==
  LET keys == [i \in 1..Len(KEYWORDS) |-> KEYWORDS[i].k]
  IN  Prefix(SelectSeq(keys, LAMBDA k : Lower(k) \in found), MaxHits)

analyze_signal(title, summary, themes, score) ==
  LET found == TermsIn(Lower(JoinText(title, summary)))
      risk_mode == RiskMode(found)
      direction == Direction(found)
      strength == StrengthOf(StrengthScore(found, themes, score))
      theme_tag == IF themes # <<>> THEN themes[1] ELSE DEFAULT_THEME
  IN  [risk_mode |-> risk_mode,
       direction |-> direction,
       strength |-> strength,
       stars |-> StarsOf(strength),
       trade_action |-> TradeAction(strength, direction),
       one_liner |-> <<theme_tag, risk_mode, direction, strength>>,
       hits |-> Hits(found)]

(***************************************************************************)
(* build_report (lines 478-518): the signals, the ranking and the theme    *)
(* rows.  The rendering of the text and HTML bodies is left out.           *)
(***************************************************************************)
\* line 484 and strength_rank.get(..., 1)
strength_rank(strength) ==
  IF strength = "High" THEN 3 ELSE IF strength = "Medium" THEN 2 ELSE 1

\* lines 487-495: a copy of the item with its signal
Enrich(it) ==
  Put(it, "signal",
      analyze_signal(Get(it, "title", <<>>), Get(it, "summary", <<>>),
                     Get(it, "themes", <<DEFAULT_THEME>>), Get(it, "score", 0)))

\* a faulty variant of ReportKeyGt: the sort key is the score alone
ReportKeyGtScoreOnly(a, b) == Get(a, "score", 0) > Get(b, "score", 0)

\* line 498: the sort key (strength rank, score)
ReportKeyGt(a, b) ==
  \/ strength_rank(a["signal"].strength) > strength_rank(b["signal"].strength)
  \/ /\ strength_rank(a["signal"].strength) = strength_rank(b["signal"].strength)
     /\ Get(a, "score", 0) > Get(b, "score", 0)

\* lines 486-498
Enriched(items) ==
  LET e == [i \in 1..Len(items) |-> Enrich(items[i])] \o <<>>
  IN  SortDesc(e, [i \in 1..Len(e) |-> [j \in 1..Len(e) |-> ReportKeyGt(e[i], e[j])]])

\* lines 505-506: the item is appended to the bucket of each of its themes,
\* from its k-th theme on
RECURSIVE BucketThemes(_, _, _)
BucketThemes(buckets, it, k) ==
  LET ths == Get(it, "themes", <<DEFAULT_THEME>>)
  IN  IF k > Len(ths) THEN buckets
      ELSE BucketThemes(Put(buckets, ths[k], Append(Get(buckets, ths[k], <<>>), it)),
                        it, k + 1)

\* lines 503-506: the buckets, from the i-th ranked item on
RECURSIVE BucketItems(_, _, _)
BucketItems(buckets, enriched, i) ==
  IF i > Len(enriched) THEN buckets
  ELSE BucketItems(BucketThemes(buckets, enriched[i], 1), enriched, i + 1)

theme_buckets(enriched) == BucketItems(<<>>, enriched, 1)

\* line 508
theme_order == ThemeNames(THEMES) \o <<DEFAULT_THEME>>

\* a faulty variant of Best: bucket[-2:], the last two of the bucket
BestTail(bucket) == SubSeq(bucket, Len(bucket) - Min(ThemeTop, Len(bucket)) + 1, Len(bucket))

\* line 513
Best(bucket) == Prefix(bucket, ThemeTop)

\* line 516: b["title"][:55] + ("..." if len(b["title"]) > 55 else "")
CutTitle(title) ==
  Prefix(title, TitleCut) \o (IF Len(title) > TitleCut THEN <<ELLIPSIS>> ELSE <<>>)

\* line 516: " / ".join(...), from the i-th of best on
RECURSIVE JoinTitles(_, _)
JoinTitles(best, i) ==
  IF i > Len(best) THEN <<>>
  ELSE IF i = Len(best) THEN CutTitle(best[i]["title"])
  ELSE CutTitle(best[i]["title"]) \o <<SPACE, 47, SPACE>> \o JoinTitles(best, i + 1)

\* line 517: max(best, key=...), the first of the items of greatest rank
MaxSignal(best) ==
  LET rank(i) == strength_rank(best[i]["signal"].strength)
  IN  best[CHOOSE i \in 1..Len(best) :
             /\ \A j \in 1..Len(best) : rank(j) <= rank(i)
             /\ \A j \in 1..(i - 1) : rank(j) < rank(i)]["signal"]

\* lines 513-518
ThemeRow(th, bucket) ==
  LET best == Best(bucket)
      max_sig == MaxSignal(best)
  IN  [theme |-> th,
       news_titles |-> JoinTitles(best, 1),
       risk_mode |-> max_sig.risk_mode,
       stars |-> max_sig.stars]

\* lines 509-518
theme_rows(buckets) ==
  LET shown == SelectSeq(theme_order,
                         LAMBDA th : th \in DOMAIN buckets /\ Best(buckets[th]) # <<>>)
  IN  [i \in 1..Len(shown) |-> ThemeRow(shown[i], buckets[shown[i]])]

build_report(items) ==
  LET enriched == Enriched(items)
  IN  [enriched |-> enriched,
       top3 |-> Prefix(enriched, SpotlightTop),
       theme_rows |-> theme_rows(theme_buckets(enriched)),
       n_items |-> Len(items)]

\* a faulty variant of build_report_items: it["signal"] = sig, without the copy
build_report_itemsInPlace(items) == [i \in 1..Len(items) |-> Enrich(items[i])] \o <<>>

\* the caller's list after the call: line 494 copies each dict before the signal
\* is added, and line 498 sorts the list of the copies
build_report_items(items) == items

(***************************************************************************)
(* The collectors (lines 216-269 and 279-338), on the entries a feed or    *)
(* the article search returned.                                            *)
(***************************************************************************)
\* a faulty variant of Admissible: the link is not looked at
AdmissibleTitleOnly(title, link) == Truthy(title)

\* lines 246 and 317: `if not title or not link: continue`
Admissible(title, link) == Truthy(title) /\ Truthy(link)

\* lines 257-264
RssItem(title, link, summary) ==
  [id |-> stable_id(title, link), title |-> title, link |-> link,
   summary |-> summary, source |-> "Google News RSS"]

\* lines 229-267: the loop from entry i on; items is what was kept so far
RECURSIVE RssLoop(_, _, _, _)
RssLoop(entries, i, items, max_total) ==
  IF i > Len(entries) THEN items
  ELSE LET title == norm(entries[i].title)
           link == norm(entries[i].link)
           summary == norm(entries[i].summary)
       IN  IF ~Admissible(title, link) THEN RssLoop(entries, i + 1, items, max_total)
           ELSE IF Len(items) + 1 >= max_total
                THEN Append(items, RssItem(title, link, summary))
                ELSE RssLoop(entries, i + 1, Append(items, RssItem(title, link, summary)),
                             max_total)

fetch_rss_items(entries, max_total) == RssLoop(entries, 1, <<>>, max_total)

\* lines 329-336
GdeltItem(title, link) ==
  [id |-> stable_id(title, link), title |-> title, link |-> link,
   summary |-> <<>>, source |-> "GDELT"]

\* lines 314-336: the loop from article i on
RECURSIVE GdeltLoop(_, _, _)
GdeltLoop(arts, i, items) ==
  IF i > Len(arts) THEN items
  ELSE LET title == norm(arts[i].title)
           link == norm(arts[i].link)
       IN  IF ~Admissible(title, link) THEN GdeltLoop(arts, i + 1, items)
           ELSE GdeltLoop(arts, i + 1, Append(items, GdeltItem(title, link)))

\* lines 311-338, on the articles of a well-formed response
fetch_gdelt_last_hours(arts) == GdeltLoop(arts, 1, <<>>)

(***************************************************************************)
(* State.                                                                  *)
(*                                                                         *)
(* A run of main: pc is the position in main, env the environment it reads *)
(* (which collectors and channels are configured, whether each transport   *)
(* is set up), got what each collector returned, items the list main       *)
(* collects, ranked and report what dedupe_score and build_report return,  *)
(* attempted the channels whose delivery was tried, sent the channels the  *)
(* report went out on, failed the channels whose transport failed, raised  *)
(* the exceptions raised so far, each with the step that raised it.        *)
(*                                                                         *)
(* A function-level run: stage is the step reached, raw the entries drawn, *)
(* via how they became the stream (the list handed to dedupe_score), cap   *)
(* its top_n, out its result and after the caller's list once it returned, *)
(* rep the result of build_report(out), out2 the result of a second call   *)
(* of dedupe_score.                                                        *)
(*                                                                         *)
(* A signal-level run: sig_in the arguments of analyze_signal, sig_out its *)
(* result, sig_themes the result of classify_themes on the same title and  *)
(* summary.                                                                *)
(***************************************************************************)
VARIABLES pc, env, got, items, ranked, report, attempted, sent, failed, raised,
          stage, raw, via, stream, cap, out, after, rep, out2,
          sig_in, sig_out, sig_themes

mainVars == <<pc, env, got, items, ranked, report, attempted, sent, failed, raised>>
fnVars == <<stage, raw, via, stream, cap, out, after, rep, out2>>
sigVars == <<sig_in, sig_out, sig_themes>>
vars == <<mainVars, fnVars, sigVars>>

\* the value of a variable no step has assigned yet
None == <<>>

MainIdle ==
  /\ pc = "idle" /\ env = None /\ got = <<>> /\ items = <<>> /\ ranked = None
  /\ report = None /\ attempted = {} /\ sent = {} /\ failed = {} /\ raised = {}

FnIdle ==
  /\ stage = "idle" /\ raw = <<>> /\ via = "none" /\ stream = None /\ cap = 0
  /\ out = None /\ after = None /\ rep = None /\ out2 = None

SigIdle == sig_in = None /\ sig_out = None /\ sig_themes = None

(***************************************************************************)
(* Function-level runs: dedupe_score and build_report on a drawn stream.   *)
(***************************************************************************)
\* the top_n values tried
Caps == 0..MaxStream

InitFn ==
  /\ MainIdle /\ SigIdle
  /\ stage = "entries"
  /\ raw \in SeqsUpTo(ENTRIES, MaxStream)
  /\ via = "none" /\ stream = None /\ cap = 0
  /\ out = None /\ after = None /\ rep = None /\ out2 = None

\* the entries are handed to dedupe_score as they are
GiveDirect ==
  /\ stage = "entries"
  /\ stage' = "input"
  /\ via' = "direct"
  /\ stream' = raw
  /\ UNCHANGED <<mainVars, sigVars, raw, cap, out, after, rep, out2>>

\* the entries go through a collector first: they are the entries of a feed, or
\* the articles of a search response
GiveCollected ==
  /\ stage = "entries"
  /\ stage' = "input"
  /\ \/ via' = "rss" /\ stream' = fetch_rss_items(raw, RssMax)
     \/ via' = "gdelt" /\ stream' = fetch_gdelt_last_hours(raw)
  /\ UNCHANGED <<mainVars, sigVars, raw, cap, out, after, rep, out2>>

ApplyDedupe ==
  /\ stage = "input"
  /\ LET ranked_all == DedupeRanked(stream)
     IN  /\ after' = dedupe_score_items(stream)
         /\ \E top_n \in Caps :
              /\ cap' = top_n
              /\ out' = Cap(ranked_all, top_n)
  /\ stage' = "deduped"
  /\ UNCHANGED <<mainVars, sigVars, raw, via, stream, rep, out2>>

ApplyReport ==
  /\ stage = "deduped"
  /\ rep' = build_report(out)
  /\ out' = build_report_items(out)
  /\ stage' = "reported"
  /\ UNCHANGED <<mainVars, sigVars, raw, via, stream, cap, after, out2>>

\* dedupe_score once more on the same list
ApplyDedupeSame ==
  /\ stage = "deduped"
  /\ out2' = dedupe_score(after, cap)
  /\ stage' = "twice"
  /\ UNCHANGED <<mainVars, sigVars, raw, via, stream, cap, out, after, rep>>

\* dedupe_score on its own output
ApplyDedupeOutput ==
  /\ stage = "deduped"
  /\ out2' = dedupe_score(out, cap)
  /\ stage' = "again"
  /\ UNCHANGED <<mainVars, sigVars, raw, via, stream, cap, out, after, rep>>

NextFn ==
  \/ GiveDirect
  \/ GiveCollected
  \/ ApplyDedupe
  \/ ApplyReport
  \/ ApplyDedupeSame
  \/ ApplyDedupeOutput

SpecFn == InitFn /\ [][NextFn]_vars

(***************************************************************************)
(* Signal-level runs: analyze_signal and classify_themes on drawn          *)
(* arguments.                                                              *)
(***************************************************************************)
InitSignal ==
  /\ MainIdle /\ FnIdle
  /\ sig_in \in [text : SIGNAL_TEXTS, themes : SIGNAL_THEMES, score : 0..MaxScore]
  /\ sig_out = None /\ sig_themes = None

ApplyAnalyze ==
  /\ sig_in # None /\ sig_out = None
  /\ sig_out' = analyze_signal(sig_in.text.title, sig_in.text.summary,
                               sig_in.themes, sig_in.score)
  /\ UNCHANGED <<mainVars, fnVars, sig_in, sig_themes>>

ApplyClassify ==
  /\ sig_in # None /\ sig_themes = None
  /\ sig_themes' = classify_themes(sig_in.text.title, sig_in.text.summary)
  /\ UNCHANGED <<mainVars, fnVars, sig_in, sig_out>>

NextSignal ==
  \/ ApplyAnalyze
  \/ ApplyClassify

SpecSignal == InitSignal /\ [][NextSignal]_vars

(***************************************************************************)
(* main (lines 698-768).                                                   *)
(***************************************************************************)
\* lines 715-720: the SMTP settings the email channel needs
SMTP_SETTINGS == {"SMTP_HOST", "SMTP_USER", "SMTP_PASS", "MAIL_FROM", "MAIL_TO"}

\* lines 700-720: gdelt_max > 0, use_rss, whether SLACK_WEBHOOK_URL is set,
\* and the SMTP settings that are set
Environments ==
  [gdelt_on : BOOLEAN, use_rss : BOOLEAN, slack_webhook : BOOLEAN,
   smtp : {SMTP_SETTINGS, SMTP_SETTINGS \ {"MAIL_TO"}, {}}]

\* line 757
SlackConfigured(e) == e.slack_webhook

\* line 763
EmailConfigured(e) == \A s \in SMTP_SETTINGS : s \in e.smtp

\* the names main assigns (its local variables)
MAIN_LOCALS ==
  {"use_rss", "gdelt_max", "rss_max", "gdelt_query", "slack_webhook", "smtp_host",
   "smtp_port", "smtp_user", "smtp_pass", "mail_from", "mail_to", "items", "e", "i",
   "it", "dt_str", "ranked", "subject", "text_body", "html_body"}

\* the names the module binds: its imports, constants and functions
MODULE_GLOBALS ==
  {"os", "re", "json", "hashlib", "textwrap", "smtplib", "Counter", "defaultdict",
   "datetime", "timedelta", "timezone", "MIMEText", "MIMEMultipart",
   "parsedate_to_datetime", "List", "Dict", "Tuple", "Optional", "requests",
   "feedparser", "KST", "UTC", "RECENT_HOURS", "ALLOW_UNDATED_RSS", "DEBUG_RSS_N",
   "RAW_PREVIEW", "RSS_FEEDS", "KEYWORDS", "THEMES", "THEME_HINTS", "norm",
   "stable_id", "fuzzy_key", "within_last_hours", "score_text", "classify_themes",
   "safe_dt_to_str", "get_entry_datetime", "fetch_rss_items", "gdelt_dt",
   "fetch_gdelt_last_hours", "dedupe_score", "RISK_OFF_TERMS", "RISK_ON_TERMS",
   "STRONG_TERMS", "MEDIUM_TERMS", "DIRECTION_UP_TERMS", "DIRECTION_DOWN_TERMS",
   "analyze_signal", "build_report", "send_slack", "send_email_smtp", "main"}

\* line 759: send_slack(slack_webhook, body)
SLACK_CALL_ARGS == <<"slack_webhook", "body">>

\* line 661: def send_slack(webhook_url, text)
SEND_SLACK_PARAMS == <<"webhook_url", "text">>

\* lines 765-766: send_email_smtp(smtp_host, ..., subject, text_body, html_body)
EMAIL_CALL_ARGS ==
  <<"smtp_host", "smtp_port", "smtp_user", "smtp_pass", "mail_from", "mail_to",
    "subject", "text_body", "html_body">>

\* lines 669-670: def send_email_smtp(host, port, user, pw, mail_from, mail_to,
\* subject, body)
SEND_EMAIL_PARAMS ==
  <<"host", "port", "user", "pw", "mail_from", "mail_to", "subject", "body">>

\* what calling a function of main's does before its body runs: a name that is
\* neither local nor global raises NameError as the arguments are evaluated, and
\* positional arguments that do not fit the parameters raise TypeError
CallError(args, params) ==
  IF \E i \in 1..Len(args) : args[i] \notin MAIN_LOCALS \cup MODULE_GLOBALS
  THEN "NameError"
  ELSE IF Len(args) # Len(params) THEN "TypeError"
  ELSE "none"

\* the exception classes `except Exception` catches
EXCEPTION_CLASSES ==
  {"Exception", "RuntimeError", "NameError", "TypeError", "ConnectionError",
   "HTTPError", "SMTPException", "OSError"}

\* a faulty variant of Caught: except RuntimeError
CaughtRuntimeError(exc) == exc = "RuntimeError"

\* lines 728, 735, 760, 767: except Exception
Caught(exc) == exc \in EXCEPTION_CLASSES

\* where main continues after exc was raised inside a try block
AfterRaise(exc, next) == IF Caught(exc) THEN next ELSE "aborted"

\* what the GDELT request and the parsing of its response may raise
\* (lines 298-309), and what reading the feeds may
GDELT_ERRORS == {"RuntimeError", "ConnectionError"}
RSS_ERRORS == {"Exception"}

Init ==
  /\ FnIdle /\ SigIdle
  /\ pc = "gdelt"
  /\ env \in Environments
  /\ got = <<>> /\ items = <<>> /\ ranked = None /\ report = None
  /\ attempted = {} /\ sent = {} /\ failed = {} /\ raised = {}

\* line 725: gdelt_max is 0
SkipGdelt ==
  /\ pc = "gdelt" /\ ~env.gdelt_on
  /\ pc' = "rss"
  /\ UNCHANGED <<env, got, items, ranked, report, attempted, sent, failed, raised,
                 fnVars, sigVars>>

\* lines 726-727: the article search answers
FetchGdelt ==
  /\ pc = "gdelt" /\ env.gdelt_on
  /\ \E arts \in SeqsUpTo(MAIN_ENTRIES, MaxFetch) :
       /\ got' = Put(got, "gdelt", fetch_gdelt_last_hours(arts))
       /\ items' = items \o fetch_gdelt_last_hours(arts)
  /\ pc' = "rss"
  /\ UNCHANGED <<env, ranked, report, attempted, sent, failed, raised, fnVars, sigVars>>

\* lines 726-729: the article search fails
FailGdelt ==
  /\ pc = "gdelt" /\ env.gdelt_on
  /\ \E exc \in GDELT_ERRORS :
       /\ raised' = raised \cup {<<"gdelt", exc>>}
       /\ pc' = AfterRaise(exc, "rss")
  /\ UNCHANGED <<env, got, items, ranked, report, attempted, sent, failed,
                 fnVars, sigVars>>

\* line 732: USE_RSS is not 1
SkipRss ==
  /\ pc = "rss" /\ ~env.use_rss
  /\ pc' = "dedupe"
  /\ UNCHANGED <<env, got, items, ranked, report, attempted, sent, failed, raised,
                 fnVars, sigVars>>

\* lines 733-734: the feeds answer
FetchRss ==
  /\ pc = "rss" /\ env.use_rss
  /\ \E entries \in SeqsUpTo(MAIN_ENTRIES, MaxFetch) :
       /\ got' = Put(got, "rss", fetch_rss_items(entries, RssMax))
       /\ items' = items \o fetch_rss_items(entries, RssMax)
  /\ pc' = "dedupe"
  /\ UNCHANGED <<env, ranked, report, attempted, sent, failed, raised, fnVars, sigVars>>

\* lines 733-736: reading the feeds fails
FailRss ==
  /\ pc = "rss" /\ env.use_rss
  /\ \E exc \in RSS_ERRORS :
       /\ raised' = raised \cup {<<"rss", exc>>}
       /\ pc' = AfterRaise(exc, "dedupe")
  /\ UNCHANGED <<env, got, items, ranked, report, attempted, sent, failed,
                 fnVars, sigVars>>

\* line 747
Dedupe ==
  /\ pc = "dedupe"
  /\ ranked' = dedupe_score(items, TopN)
  /\ items' = dedupe_score_items(items)
  /\ pc' = "report"
  /\ UNCHANGED <<env, got, report, attempted, sent, failed, raised, fnVars, sigVars>>

\* line 750
Report ==
  /\ pc = "report"
  /\ report' = build_report(ranked)
  /\ ranked' = build_report_items(ranked)
  /\ pc' = "slack"
  /\ UNCHANGED <<env, got, items, attempted, sent, failed, raised, fnVars, sigVars>>

\* one delivery (lines 757-761 and 763-768): nothing happens when the channel is
\* not configured; when it is, the call is tried, and the report is sent unless
\* the call or the transport raises
Deliver(channel, configured, error, transport_error, next) ==
  IF ~configured
  THEN /\ pc' = next
       /\ UNCHANGED <<attempted, sent, failed, raised>>
  ELSE /\ attempted' = attempted \cup {channel}
       /\ IF error # "none"
          THEN /\ raised' = raised \cup {<<channel, error>>}
               /\ pc' = AfterRaise(error, next)
               /\ UNCHANGED <<sent, failed>>
          ELSE \E ok \in BOOLEAN :
                 IF ok
                 THEN /\ sent' = sent \cup {channel}
                      /\ pc' = next
                      /\ UNCHANGED <<failed, raised>>
                 ELSE /\ failed' = failed \cup {channel}
                      /\ raised' = raised \cup {<<channel, transport_error>>}
                      /\ pc' = AfterRaise(transport_error, next)
                      /\ UNCHANGED sent

\* lines 757-761
DeliverSlack ==
  /\ pc = "slack"
  /\ Deliver("slack", SlackConfigured(env),
             CallError(SLACK_CALL_ARGS, SEND_SLACK_PARAMS), "HTTPError", "email")
  /\ UNCHANGED <<env, got, items, ranked, report, fnVars, sigVars>>

\* lines 763-768
DeliverEmail ==
  /\ pc = "email"
  /\ Deliver("email", EmailConfigured(env),
             CallError(EMAIL_CALL_ARGS, SEND_EMAIL_PARAMS), "SMTPException", "done")
  /\ UNCHANGED <<env, got, items, ranked, report, fnVars, sigVars>>

Next ==
  \/ SkipGdelt
  \/ FetchGdelt
  \/ FailGdelt
  \/ SkipRss
  \/ FetchRss
  \/ FailRss
  \/ Dedupe
  \/ Report
  \/ DeliverSlack
  \/ DeliverEmail

Spec == Init /\ [][Next]_vars

(***************************************************************************)
(* The claims.  What the function-level runs hold once dedupe_score has    *)
(* returned:                                                               *)
(***************************************************************************)
\* the positions of the stream whose item dedupe_score accepted: it gave them
\* a score
AcceptedAt == {i \in 1..Len(after) : "score" \in DOMAIN after[i]}

\* the accepted items, in arrival order, before the cap
Survivors == SelectSeq(after, LAMBDA it : "score" \in DOMAIN it)

Ids(s) == {s[i]["id"] : i \in 1..Len(s)}

\* the survivors the cap removed
Removed == SelectSeq(Survivors, LAMBDA it : it["id"] \notin Ids(out))

\* where in the stream the survivor with this id arrived
ArrivedAt(id) == CHOOSE p \in AcceptedAt : after[p]["id"] = id

SameTitleAndLink(a, b) ==
  /\ Lower(norm(Get(a, "title", <<>>))) = Lower(norm(Get(b, "title", <<>>)))
  /\ Lower(norm(Get(a, "link", <<>>))) = Lower(norm(Get(b, "link", <<>>)))

\* the positions among the first n of the stream s that are accepted when a
\* position is accepted exactly if no accepted earlier one has its strong id or
\* its fuzzy key
RECURSIVE FirstSeen(_, _)
FirstSeen(s, n) ==
  IF n = 0 THEN {}
  ELSE LET before == FirstSeen(s, n - 1)
       IN  IF \E j \in before : \/ StrongId(s[j]) = StrongId(s[n])
                                \/ FuzzyOf(s[j]) = FuzzyOf(s[n])
           THEN before
           ELSE before \cup {n}

\* C1: dedupe_score accepts an item if and only if neither its strong id nor its
\* fuzzy key is that of an earlier accepted item; no two survivors share a
\* strong id or a fuzzy key; and of two raw items with the same (title, link),
\* or with the same fuzzy key and different links, the later one never survives.
C1_FirstSeenWins ==
  stage = "deduped" =>
    /\ AcceptedAt = FirstSeen(stream, Len(stream))
    /\ \A i, j \in AcceptedAt :
         i # j => /\ after[i]["id"] # after[j]["id"]
                  /\ FuzzyOf(after[i]) # FuzzyOf(after[j])
    /\ \A i, j \in 1..Len(out) :
         i # j => /\ out[i]["id"] # out[j]["id"]
                  /\ FuzzyOf(out[i]) # FuzzyOf(out[j])
    /\ \A i, j \in 1..Len(stream) :
         (/\ i < j
          /\ \/ SameTitleAndLink(stream[i], stream[j])
             \/ /\ FuzzyOf(stream[i]) = FuzzyOf(stream[j])
                /\ stream[i].link # stream[j].link)
           => j \notin AcceptedAt

\* C1's case: a republished headline (another link, another strong id, the same
\* fuzzy key) and an exact repeat are both dropped after the first was accepted
C1_Witness ==
  /\ stage = "deduped"
  /\ \E i, j, k \in 1..Len(stream) :
       /\ i < j /\ i < k /\ j # k
       /\ i \in AcceptedAt /\ j \notin AcceptedAt /\ k \notin AcceptedAt
       /\ FuzzyOf(stream[i]) = FuzzyOf(stream[j])
       /\ StrongId(stream[i]) # StrongId(stream[j])
       /\ stream[i].title # stream[j].title
       /\ StrongId(stream[i]) = StrongId(stream[k])

\* the (strength rank, score) key of a is strictly greater than that of b
TierKeyGt(a, b) ==
  LET ra == strength_rank(Enrich(a)["signal"].strength)
      rb == strength_rank(Enrich(b)["signal"].strength)
  IN  ra > rb \/ (ra = rb /\ Get(a, "score", 0) > Get(b, "score", 0))

\* C2, as claimed: no survivor removed by the cap has a strictly higher
\* (strength rank, score) key than a survivor that is kept.
C2_CapKeepsTopTiers ==
  stage = "reported" =>
    \A r \in Range(Removed) : \A k \in Range(rep.enriched) : ~TierKeyGt(r, k)

\* C2, amended: the cap keeps the first top_n survivors of the (score, title)
\* descending order, and they are then ranked by (strength rank, score): every
\* kept survivor has a strictly higher (score, title) key than every removed
\* one, the output holds Min(top_n, number of survivors) items, and they are
\* survivors.
C2_CapKeepsTopScores ==
  stage = "reported" =>
    /\ \A r \in Range(Removed) : \A k \in Range(rep.enriched) : DedupeKeyGt(k, r)
    /\ Len(rep.enriched) = Min(cap, Len(Survivors))
    /\ Ids(rep.enriched) \subseteq Ids(Survivors)

\* C2's case: the cap removed a High item and kept a Medium one of higher score
C2_Witness ==
  /\ stage = "reported"
  /\ \E r \in Range(Removed) : \E k \in Range(rep.enriched) :
       /\ Enrich(r)["signal"].strength = "High"
       /\ k["signal"].strength = "Medium"
       /\ k.score > r.score

\* two ranked items of the same strength and the same score
Tied(a, b) ==
  /\ a["signal"].strength = b["signal"].strength
  /\ a.score = b.score

\* C3, as claimed: two items of the same strength and score are ranked in the
\* order in which they arrived in the raw stream.
C3_TiesInArrivalOrder ==
  stage = "reported" =>
    \A i, j \in 1..Len(rep.enriched) :
      (i < j /\ Tied(rep.enriched[i], rep.enriched[j]))
        => ArrivedAt(rep.enriched[i]["id"]) < ArrivedAt(rep.enriched[j]["id"])

\* C3, amended: two items of the same strength and score are ranked by title,
\* the greater title (in the order of str) first, whatever their arrival order.
C3_TiesInTitleOrder ==
  stage = "reported" =>
    \A i, j \in 1..Len(rep.enriched) :
      (i < j /\ Tied(rep.enriched[i], rep.enriched[j]))
        => StrLess(rep.enriched[j].title, rep.enriched[i].title)

\* C3's case: two tied items are ranked against their arrival order
C3_Witness ==
  /\ stage = "reported"
  /\ \E i, j \in 1..Len(rep.enriched) :
       /\ i < j /\ Tied(rep.enriched[i], rep.enriched[j])
       /\ ArrivedAt(rep.enriched[i]["id"]) > ArrivedAt(rep.enriched[j]["id"])

\* the strength rank the claims give: High 3, Medium 2, Low 1
TierRank(it) ==
  CASE it["signal"].strength = "High" -> 3
    [] it["signal"].strength = "Medium" -> 2
    [] it["signal"].strength = "Low" -> 1

\* C4: in the ranked sequence of build_report, an earlier item's key (strength
\* rank, score) is greater than or equal to a later item's, the rank compared
\* first and the score second.
C4_RankedByTierThenScore ==
  stage = "reported" =>
    \A i, j \in 1..Len(rep.enriched) :
      i < j =>
        \/ TierRank(rep.enriched[i]) > TierRank(rep.enriched[j])
        \/ /\ TierRank(rep.enriched[i]) = TierRank(rep.enriched[j])
           /\ rep.enriched[i].score >= rep.enriched[j].score

\* C4's case: a High item is ranked before a Medium item of higher score, and
\* the Medium item before a Low one
C4_Witness ==
  /\ stage = "reported"
  /\ Len(rep.enriched) = 3
  /\ TierRank(rep.enriched[1]) > TierRank(rep.enriched[2])
  /\ rep.enriched[1].score < rep.enriched[2].score
  /\ TierRank(rep.enriched[2]) > TierRank(rep.enriched[3])
  /\ rep.enriched[2].score > rep.enriched[3].score

\* C5: dedupe_score run again on the stream it has already processed returns
\* the same set of ids, and run on its own output returns that output unchanged.
C5_RerunIsStable ==
  /\ stage = "twice" => Ids(out2) = Ids(out)
  /\ stage = "again" => out2 = out

\* C5's case: a second run on the same stream, and a run on its own output, of
\* a stream that holds a duplicate and more survivors than the cap keeps
C5_Witness ==
  /\ stage \in {"twice", "again"}
  /\ Len(out2) = 2
  /\ Len(Survivors) > Len(out2)
  /\ \/ stage = "again"
     \/ Len(after) > Len(Survivors)

NoEmptyTitleOrLink(s) ==
  \A i \in 1..Len(s) : /\ Get(s[i], "title", <<>>) # <<>>
                       /\ Get(s[i], "link", <<>>) # <<>>

\* C6, as claimed: dedupe_score excludes every item whose title or link is
\* empty, whatever list it is given.
C6_DedupeExcludesEmpty ==
  stage = "deduped" => NoEmptyTitleOrLink(out)

\* C6, amended: the collectors exclude every entry whose title or link is
\* empty, so dedupe_score applied to a collector's items returns none;
\* dedupe_score itself excludes nothing on that ground.
C6_CollectorsExcludeEmpty ==
  (via \in {"rss", "gdelt"} /\ stage \in {"input", "deduped"}) =>
    /\ NoEmptyTitleOrLink(stream)
    /\ stage = "deduped" => NoEmptyTitleOrLink(out)

\* C6's case: a collector was given an entry without a title, one without a
\* link and a complete one, and dedupe_score returned the complete one
C6_Witness ==
  /\ via = "gdelt" /\ stage = "deduped"
  /\ \E i \in 1..Len(raw) : raw[i].title = <<>>
  /\ \E i \in 1..Len(raw) : raw[i].link = <<>>
  /\ Len(out) = 1

(***************************************************************************)
(* What a run of main holds.                                               *)
(***************************************************************************)
Channels == {"slack", "email"}

Configured(channel) ==
  IF channel = "slack" THEN SlackConfigured(env) ELSE EmailConfigured(env)

\* what the collectors that succeeded returned, the article search first
Collected == Get(got, "gdelt", <<>>) \o Get(got, "rss", <<>>)

\* C7: an exception of the GDELT fetch or of the RSS fetch does not abort the
\* run, and what the collector that succeeded returned is still deduplicated,
\* ranked and reported; an exception of one delivery does not abort the run
\* either, and every configured channel is attempted.
C7_GracefulDegradation ==
  /\ pc # "aborted"
  /\ pc \in {"report", "slack", "email", "done"} =>
       ranked = dedupe_score(Collected, TopN)
  /\ pc \in {"slack", "email", "done"} =>
       /\ report = build_report(dedupe_score(Collected, TopN))
       /\ report.n_items = Len(dedupe_score(Collected, TopN))
  /\ pc = "done" => \A ch \in Channels : Configured(ch) => ch \in attempted

\* C7's case: the article search failed, the feeds gave an item that is
\* reported, the Slack delivery raised and the email delivery was still tried
C7_Witness ==
  /\ pc = "done"
  /\ \E exc \in GDELT_ERRORS : <<"gdelt", exc>> \in raised
  /\ "rss" \in DOMAIN got /\ report.n_items >= 1
  /\ \E exc \in EXCEPTION_CLASSES : <<"slack", exc>> \in raised
  /\ "email" \in attempted

\* C8, as claimed: when main has gone through its delivery step, the report
\* has been sent on every configured channel whose transport did not fail.
C8_ConfiguredChannelsSend ==
  pc = "done" =>
    \A ch \in Channels : (Configured(ch) /\ ch \notin failed) => ch \in sent

\* C8's case: main is through its delivery step with both channels configured,
\* no transport failure, and nothing sent
C8_Witness ==
  /\ pc = "done"
  /\ \A ch \in Channels : Configured(ch) /\ ch \in attempted /\ ch \notin failed
  /\ sent = {}
  /\ report.n_items >= 1

(***************************************************************************)
(* What the signal-level runs hold.                                        *)
(***************************************************************************)
\* some term of the lexicon occurs in the lowercased title and summary
Occurs(terms) ==
  \E i \in 1..Len(terms) :
    SubstringOf(terms[i], Lower(JoinText(sig_in.text.title, sig_in.text.summary)))

\* the strength score as C9 gives it
C9_Score ==
  (IF sig_in.score < 6 THEN sig_in.score ELSE 6)
  + (IF Occurs(STRONG_TERMS) THEN 4 ELSE IF Occurs(MEDIUM_TERMS) THEN 2 ELSE 0)
  + (IF Range(sig_in.themes) \cap Range(HIGH_IMPACT_THEMES) # {} THEN 2 ELSE 0)

\* C9: the strength of analyze_signal is High exactly when min(6, score) + (4
\* for a strong term, else 2 for a medium term) + (2 for a high-impact theme)
\* is at least 10, Medium exactly when it is 6..9, Low exactly when it is at
\* most 5.
C9_TierBoundaries ==
  sig_out # None =>
    /\ sig_out.strength = "High" <=> C9_Score >= 10
    /\ sig_out.strength = "Medium" <=> (C9_Score >= 6 /\ C9_Score <= 9)
    /\ sig_out.strength = "Low" <=> C9_Score <= 5
    /\ sig_out.strength \in {"High", "Medium", "Low"}

\* C9's case: a strength score of exactly 10, reached with the keyword score
\* above its cap of 6
C9_Witness ==
  /\ sig_out # None
  /\ C9_Score = 10
  /\ sig_in.score > 6
  /\ sig_out.strength = "High"

(***************************************************************************)
(* What the function-level runs hold once build_report has returned.       *)
(***************************************************************************)
\* the ranked items tagged with the theme, in ranked order
Tagged(th) == SelectSeq(rep.enriched, LAMBDA it : th \in Range(it.themes))

\* the themes of the rows, in the order of the rows
RowThemes == [i \in 1..Len(rep.theme_rows) |-> rep.theme_rows[i].theme]

\* the titles of a row, cut as the report cuts them
RowTitles(its) ==
  IF Len(its) = 1 THEN CutTitle(its[1].title)
  ELSE CutTitle(its[1].title) \o <<SPACE, 47, SPACE>> \o CutTitle(its[2].title)

\* C10: the row of a theme is built from the first two, in ranked order, of the
\* ranked items tagged with it (an item is in the bucket of each of its
\* themes); the rows are in theme declaration order, the default theme last;
\* a theme without a tagged item has no row.
C10_ThemeRows ==
  stage = "reported" =>
    /\ RowThemes = SelectSeq(theme_order, LAMBDA th : Tagged(th) # <<>>)
    /\ theme_order[Len(theme_order)] = DEFAULT_THEME
    /\ \A i \in 1..Len(rep.theme_rows) :
         LET row == rep.theme_rows[i]
             top == SubSeq(Tagged(row.theme), 1,
                           IF Len(Tagged(row.theme)) < 2 THEN 1 ELSE 2)
         IN  /\ row.news_titles = RowTitles(top)
             /\ \E k \in 1..Len(top) :
                  /\ row.risk_mode = top[k]["signal"].risk_mode
                  /\ row.stars = top[k]["signal"].stars
                  /\ \A m \in 1..Len(top) : top[m]["signal"].stars <= row.stars

\* C10's case: three ranked items share a theme, one of them has a second
\* theme, and the report has a row for each of the two themes
C10_Witness ==
  /\ stage = "reported"
  /\ Len(rep.theme_rows) = 2
  /\ \E th \in Range(theme_order) : Len(Tagged(th)) = 3
  /\ \E i \in 1..Len(rep.enriched) : Len(rep.enriched[i].themes) = 2

(***************************************************************************)
(* More of what the signal-level runs hold.                                *)
(***************************************************************************)
\* the macro-risk words C11 lists: hawkish, yield, war, attack, sanction, oil,
\* inflation
C11_FallbackWords ==
  << <<104, 97, 119, 107, 105, 115, 104>>, <<121, 105, 101, 108, 100>>,
     <<119, 97, 114>>, <<97, 116, 116, 97, 99, 107>>,
     <<115, 97, 110, 99, 116, 105, 111, 110>>, <<111, 105, 108>>,
     <<105, 110, 102, 108, 97, 116, 105, 111, 110>> >>

\* C11: the risk mode of analyze_signal is Risk-off when a risk-off term matches
\* and no risk-on term does, Risk-on when a risk-on term matches and no risk-off
\* term does, and when both or neither match it is Risk-off if the text holds a
\* macro-risk word and Mixed otherwise.
C11_RiskMode ==
  sig_out # None =>
    LET off == Occurs(RISK_OFF_TERMS)
        on == Occurs(RISK_ON_TERMS)
    IN  sig_out.risk_mode =
          (IF off /\ ~on THEN "Risk-off"
           ELSE IF on /\ ~off THEN "Risk-on"
           ELSE IF Occurs(C11_FallbackWords) THEN "Risk-off"
           ELSE "Mixed")

\* C11's case: a risk-off term and a risk-on term both match, no macro-risk
\* word does, and the risk mode is Mixed
C11_Witness ==
  /\ sig_out # None
  /\ Occurs(RISK_OFF_TERMS) /\ Occurs(RISK_ON_TERMS)
  /\ ~Occurs(C11_FallbackWords)
  /\ sig_out.risk_mode = "Mixed"

\* C12: the action of analyze_signal is the open-range attempt exactly when the
\* strength is High and the direction is Up or Down, the partial scale-in
\* exactly when the strength is Medium, and observe-only in every other case;
\* the direction is Up or Down when only up terms or only down terms match, and
\* Neutral when both or neither do.
C12_Action ==
  sig_out # None =>
    LET up == Occurs(DIRECTION_UP_TERMS)
        down == Occurs(DIRECTION_DOWN_TERMS)
    IN  /\ sig_out.direction =
             (IF up /\ ~down THEN "Up" ELSE IF down /\ ~up THEN "Down" ELSE "Neutral")
        /\ sig_out.trade_action = "open-range attempt"
             <=> (sig_out.strength = "High" /\ sig_out.direction \in {"Up", "Down"})
        /\ sig_out.trade_action = "partial scale-in" <=> sig_out.strength = "Medium"
        /\ sig_out.trade_action = "observe only"
             <=> \/ sig_out.strength = "Low"
                 \/ (sig_out.strength = "High" /\ sig_out.direction = "Neutral")

\* C12's case: a High strength with up terms and down terms both matching, so
\* that the direction is Neutral and the action is to observe
C12_Witness ==
  /\ sig_out # None
  /\ sig_out.strength = "High"
  /\ Occurs(DIRECTION_UP_TERMS) /\ Occurs(DIRECTION_DOWN_TERMS)
  /\ sig_out.direction = "Neutral"
  /\ sig_out.trade_action = "observe only"

\* the themes, as declared, with a keyword that occurs in the lowercased title
\* and summary
MatchedThemes ==
  SelectSeq(THEMES, LAMBDA t : \E j \in 1..Len(t.keys) :
    SubstringOf(Lower(t.keys[j]),
                Lower(JoinText(sig_in.text.title, sig_in.text.summary))))

\* C13: classify_themes returns a non-empty list without repeats: the themes
\* with a keyword in the lowercased title and summary, in declaration order,
\* and the default theme alone exactly when no theme matches.
C13_Themes ==
  sig_themes # None =>
    /\ Len(sig_themes) >= 1
    /\ Cardinality(Range(sig_themes)) = Len(sig_themes)
    /\ MatchedThemes # <<>> =>
         sig_themes = [i \in 1..Len(MatchedThemes) |-> MatchedThemes[i].theme]
    /\ MatchedThemes = <<>> <=> sig_themes = <<"other">>
    /\ "other" \in Range(sig_themes) => Len(sig_themes) = 1

\* C13's case: two themes match, the later declared one by the earlier word of
\* the text, and they are returned in declaration order
C13_Witness ==
  /\ sig_themes = <<"china/policy", "geopolitics/commodities">>
  /\ Len(MatchedThemes) = 2
  /\ sig_in.text.title = <<79, 105, 108, 32, 115, 116, 105, 109, 117, 108, 117, 115>>

(***************************************************************************)
(* What each stage does to the list it is given.                           *)
(***************************************************************************)
\* the keys dedupe_score assigns
AssignedKeys == {"id", "score", "themes"}

\* the step in which dedupe_score runs on the stream, and the one in which
\* build_report runs on its output
DedupeRuns == stage = "input" /\ stage' = "deduped"

ReportRuns == stage = "deduped" /\ stage' = "reported"

\* the record without its signal
WithoutSignal(it) == [k \in DOMAIN it \ {"signal"} |-> it[k]]

\* C14, as claimed: dedupe_score changes neither the list it is given nor the
\* records in it, and build_report does not change the ranked items it is
\* given.
C14_InputsUnchanged ==
  [][/\ DedupeRuns => after' = stream
     /\ ReportRuns => out' = out]_vars

\* C14, amended: dedupe_score leaves the list it is given as long and in the
\* same order, and the records it rejects untouched, but it assigns id, score
\* and themes in each record it accepts and returns those very records;
\* build_report changes nothing it is given: its ranked records are copies with
\* the signal added.
C14_AcceptedUpdatedInPlace ==
  [][/\ DedupeRuns =>
          /\ Len(after') = Len(stream)
          /\ \A i \in 1..Len(stream) :
               /\ \A k \in DOMAIN stream[i] \ AssignedKeys :
                    k \in DOMAIN after'[i] /\ after'[i][k] = stream[i][k]
               /\ i \in FirstSeen(stream, Len(stream)) =>
                    /\ DOMAIN after'[i] = DOMAIN stream[i] \cup AssignedKeys
                    /\ after'[i] # stream[i]
               /\ i \notin FirstSeen(stream, Len(stream)) => after'[i] = stream[i]
          /\ \A k \in 1..Len(out') :
               \E i \in FirstSeen(stream, Len(stream)) : out'[k] = after'[i]
     /\ ReportRuns =>
          /\ out' = out
          /\ after' = after
          /\ Len(rep'.enriched) = Len(out)
          /\ \A k \in 1..Len(rep'.enriched) :
               /\ "signal" \in DOMAIN rep'.enriched[k]
               /\ \E j \in 1..Len(out) :
                    /\ "signal" \notin DOMAIN out[j]
                    /\ WithoutSignal(rep'.enriched[k]) = out[j]]_vars

\* C14's case: both stages have run on a stream of which a record was accepted
\* and updated and another rejected, and the report ranks a record
C14_Witness ==
  /\ stage = "reported"
  /\ \E i, j \in 1..Len(stream) :
       /\ after[i] # stream[i]
       /\ after[j] = stream[j]
  /\ Len(rep.enriched) >= 1
  /\ \A k \in 1..Len(out) : "signal" \notin DOMAIN out[k]
=============================================================================
